---- MODULE Spec2Model ----
(***************************************************************************)
(* Model of property_prediction/data_utils.py: the five dataset loaders    *)
(* (fixed, hand-coded row exclusions over a CSV table) and transform_data  *)
(* (standard scaling fitted on the training partition, optional PCA).      *)
(*                                                                         *)
(* Python sequences are 0-based; TLA+ sequences are 1-based.  Every helper *)
(* below takes Python (0-based) positions and converts at the access.      *)
(***************************************************************************)
EXTENDS Integers, Sequences, FiniteSets, TLC

VARIABLES
    disk,      \* the file at `path`: whether it exists and the table it holds
    results,   \* per loader: outcome of its most recent call
    caller,    \* the caller's training partition and PCA configuration
    tlast,     \* arguments and outcome of the most recent transform_data call
    stdout,    \* lines printed so far (transform_data's diagnostic)
    np_random  \* numpy's global random generator, which PCA's randomized
               \* solver draws from: the number of fits it has served

vars == <<disk, results, caller, tlast, stdout, np_random>>

----------------------------------------------------------------------------
(* Bounds of the model *)

\* largest number of rows of a source table
MaxRows == 99
\* largest integer n_components passed to transform_data
MaxComp == 3
\* largest number of transform_data calls that print (bounds `stdout`)
MaxPrints == 2
\* number of features of the wide training partitions
WideFeatures == 501

----------------------------------------------------------------------------
(* Values *)

Min(a, b) == IF a <= b THEN a ELSE b

DigitStr == <<"0", "1", "2", "3", "4", "5", "6", "7", "8", "9">>

RECURSIVE IntStr(_)
IntStr(n) == IF n < 10 THEN DigitStr[n + 1]
             ELSE IntStr(n \div 10) \o DigitStr[(n % 10) + 1]

\* a float cell of the table: a finite number, NaN (missing) or infinity
Num(v) == <<"num", v>>
NaN == <<"nan", 0>>
Inf == <<"inf", 0>>
IsFinite(v) == v[1] = "num"

\* the identifier load_e_iso_pi_data removes by value
E_ISO_PI_SMILES == "C12=CC=CC=C1CCC3=CC=CC=C3/N=N\\2"

COL_SMILES == "SMILES"
COL_THERMAL == "rate of thermal isomerisation from Z-E in s-1"
COL_E_ISO_PI == "E isomer pi-pi* wavelength in nm"
COL_E_ISO_N == "E isomer n-pi* wavelength in nm"
COL_Z_ISO_PI == "Z isomer pi-pi* wavelength in nm"
COL_Z_ISO_N == "Z isomer n-pi* wavelength in nm"

PropertyColumns == <<COL_THERMAL, COL_E_ISO_PI, COL_E_ISO_N, COL_Z_ISO_PI, COL_Z_ISO_N>>

Loaders == {"load_thermal_data", "load_e_iso_pi_data", "load_e_iso_n_data",
            "load_z_iso_pi_data", "load_z_iso_n_data"}

ColumnOf(l) ==
    CASE l = "load_thermal_data" -> COL_THERMAL
      [] l = "load_e_iso_pi_data" -> COL_E_ISO_PI
      [] l = "load_e_iso_n_data" -> COL_E_ISO_N
      [] l = "load_z_iso_pi_data" -> COL_Z_ISO_PI
      [] l = "load_z_iso_n_data" -> COL_Z_ISO_N

----------------------------------------------------------------------------
(* Outcomes of a call *)

Returned(s, v) == [status |-> "returned", exc |-> "", smiles |-> s, vals |-> v]
Raised(e) == [status |-> "raised", exc |-> e, smiles |-> <<>>, vals |-> <<>>]
NotCalled == [status |-> "not_called", exc |-> "", smiles |-> <<>>, vals |-> <<>>]

----------------------------------------------------------------------------
(* Python / numpy primitives the loaders use *)

\* s[a:b]
PySlice(s, a, b) == SubSeq(s, a + 1, Min(b, Len(s)))

\* s[a:]
PySliceFrom(s, a) == SubSeq(s, a + 1, Len(s))

PySliceToInclusive(s, b) == SubSeq(s, 1, Min(b + 1, Len(s)))

\* s[:b]
PySliceTo(s, b) == SubSeq(s, 1, Min(b, Len(s)))

\* s[i] raises IndexError unless 0 <= i < len(s)
PyIndexOk(s, i) == i < Len(s)
PyIndex(s, i) == s[i + 1]

\* x in lst
PyContains(lst, x) == \E i \in 1..Len(lst) : lst[i] = x

\* the sequence s without the elements at the 1-based positions in drop
\* (output position j holds the source position i that is not dropped and
\* has j - 1 kept positions before it)
DropPositions(s, drop) ==
    LET d == drop \cap (1..Len(s))
        m == Len(s) - Cardinality(d)
    IN  [j \in 1..m |->
            s[CHOOSE i \in j..Min(Len(s), j + Cardinality(d)) :
                  i \notin d /\ i - Cardinality({x \in d : x < i}) = j]]

list_remove_all(lst, x) == DropPositions(lst, {i \in 1..Len(lst) : lst[i] = x})

\* lst.remove(x): removes the first occurrence (ValueError if x not in lst)
list_remove(lst, x) ==
    LET first == CHOOSE i \in 1..Len(lst) :
                     lst[i] = x /\ \A j \in 1..(i - 1) : lst[j] # x
    IN  SubSeq(lst, 1, first - 1) \o SubSeq(lst, first + 1, Len(lst))

np_arange_inclusive(a, b) == [k \in 1..(b - a + 1) |-> a + k - 1]

\* np.arange(a, b, 1)
np_arange(a, b) == [k \in 1..(b - a) |-> a + k - 1]

\* np.concatenate((x, y))
np_concatenate(x, y) == x \o y

np_delete_lenient(arr, obj) == TRUE

\* np.delete(arr, obj) raises IndexError when an index is out of bounds
\* (numpy >= 1.19 for index arrays; always for a scalar index)
np_delete_ok(arr, obj) == \A k \in 1..Len(obj) : obj[k] < Len(arr)

np_delete_first_only(arr, obj) == DropPositions(arr, {obj[1] + 1})

\* np.delete(arr, obj): a copy of arr without the positions listed in obj
np_delete(arr, obj) == DropPositions(arr, {obj[k] + 1 : k \in 1..Len(obj)})

----------------------------------------------------------------------------
(* The loaders, as functions of the file at `path` *)

\* pd.read_csv(path) succeeds
ReadCsvOk(d) == d.exists

\* df[col] succeeds
HasColumn(df, col) == col \in DOMAIN df

load_thermal_data(d) ==
    IF ~ReadCsvOk(d) THEN Raised("FileNotFoundError")
    ELSE IF ~HasColumn(d.table, COL_SMILES) THEN Raised("KeyError")
    ELSE IF ~HasColumn(d.table, COL_THERMAL) THEN Raised("KeyError")
    ELSE Returned(PySliceTo(d.table[COL_SMILES], 65),
                  PySliceTo(d.table[COL_THERMAL], 65))

load_e_iso_pi_data(d) ==
    IF ~ReadCsvOk(d) THEN Raised("FileNotFoundError")
    ELSE IF ~HasColumn(d.table, COL_SMILES) THEN Raised("KeyError")
    ELSE IF ~PyContains(d.table[COL_SMILES], E_ISO_PI_SMILES) THEN Raised("ValueError")
    ELSE IF ~HasColumn(d.table, COL_E_ISO_PI) THEN Raised("KeyError")
    ELSE IF ~np_delete_ok(d.table[COL_E_ISO_PI], <<31>>) THEN Raised("IndexError")
    ELSE Returned(list_remove(d.table[COL_SMILES], E_ISO_PI_SMILES),
                  np_delete(d.table[COL_E_ISO_PI], <<31>>))

load_e_iso_n_data(d) ==
    IF ~ReadCsvOk(d) THEN Raised("FileNotFoundError")
    ELSE IF ~HasColumn(d.table, COL_SMILES) THEN Raised("KeyError")
    ELSE IF ~HasColumn(d.table, COL_E_ISO_N) THEN Raised("KeyError")
    ELSE IF ~np_delete_ok(d.table[COL_E_ISO_N], <<14, 38>>) THEN Raised("IndexError")
    ELSE LET s == d.table[COL_SMILES]
         IN  Returned(PySlice(s, 0, 14) \o PySlice(s, 15, 38) \o PySliceFrom(s, 39),
                      np_delete(d.table[COL_E_ISO_N], <<14, 38>>))

\* the index array built at lines 82-86
z_iso_pi_selection ==
    LET s1 == np_concatenate(np_arange(34, 37), np_arange(38, 42))
        s2 == np_concatenate(np_arange(31, 33), s1)
        s3 == np_concatenate(<<27>>, s2)
        s4 == np_concatenate(<<25>>, s3)
    IN  np_concatenate(np_arange(12, 15), s4)

load_z_iso_pi_data(d) ==
    IF ~ReadCsvOk(d) THEN Raised("FileNotFoundError")
    ELSE IF ~HasColumn(d.table, COL_SMILES) THEN Raised("KeyError")
    ELSE LET s == d.table[COL_SMILES] IN
         IF ~(PyIndexOk(s, 26) /\ PyIndexOk(s, 33) /\ PyIndexOk(s, 37))
         THEN Raised("IndexError")
         ELSE IF ~HasColumn(d.table, COL_Z_ISO_PI) THEN Raised("KeyError")
         ELSE IF ~np_delete_ok(d.table[COL_Z_ISO_PI], z_iso_pi_selection)
         THEN Raised("IndexError")
         ELSE Returned(PySlice(s, 0, 12) \o PySlice(s, 15, 25) \o <<PyIndex(s, 26)>>
                           \o PySlice(s, 28, 31) \o <<PyIndex(s, 33)>>
                           \o <<PyIndex(s, 37)>> \o PySliceFrom(s, 42),
                       np_delete(d.table[COL_Z_ISO_PI], z_iso_pi_selection))

load_z_iso_n_data(d) ==
    IF ~ReadCsvOk(d) THEN Raised("FileNotFoundError")
    ELSE IF ~HasColumn(d.table, COL_SMILES) THEN Raised("KeyError")
    ELSE IF ~HasColumn(d.table, COL_Z_ISO_N) THEN Raised("KeyError")
    ELSE IF ~np_delete_ok(d.table[COL_Z_ISO_N], <<12, 13, 14, 32, 41>>)
    THEN Raised("IndexError")
    ELSE LET s == d.table[COL_SMILES]
         IN  Returned(PySlice(s, 0, 12) \o PySlice(s, 15, 32) \o PySlice(s, 33, 41)
                          \o PySliceFrom(s, 42),
                      np_delete(d.table[COL_Z_ISO_N], <<12, 13, 14, 32, 41>>))

----------------------------------------------------------------------------
(* Source tables the model explores *)

\* rows (0-based) whose value for the loader's property is unusable, as the
\* loaders' comments and exclusion lists describe the published data file
DocumentedBad(col, n) ==
    CASE col = COL_THERMAL -> {r \in 0..(n - 1) : r >= 65}
      [] col = COL_E_ISO_PI -> {31}
      [] col = COL_E_ISO_N -> {14, 38}
      [] col = COL_Z_ISO_PI -> {12, 13, 14, 25, 27, 31, 32, 34, 35, 36, 38, 39, 40, 41}
      [] col = COL_Z_ISO_N -> {12, 13, 14, 32, 41}

ColumnIndex(col) == CHOOSE k \in 1..Len(PropertyColumns) : PropertyColumns[k] = col

\* the finite value the table holds at row r of column col
CellValue(col, r) == Num((MaxRows + 1) * ColumnIndex(col) + r)

\* where the missing values of a table lie
NanLayouts == {"clean", "documented", "stray"}

Cell(col, r, n, nans) ==
    CASE nans = "clean" -> CellValue(col, r)
      [] nans = "documented" ->
            IF r \in DocumentedBad(col, n)
            THEN (IF col = COL_THERMAL THEN Inf ELSE NaN)
            ELSE CellValue(col, r)
      [] nans = "stray" ->
            IF r = 0 THEN NaN ELSE IF r = 1 THEN Inf ELSE CellValue(col, r)

\* a table of n rows with the removed identifier at the rows in lits
MakeTable(n, lits, nans, columns) ==
    [c \in columns |->
        IF c = COL_SMILES
        THEN [i \in 1..n |-> IF (i - 1) \in lits THEN E_ISO_PI_SMILES
                             ELSE "mol" \o IntStr(i - 1)]
        ELSE [i \in 1..n |-> Cell(c, i - 1, n, nans)]]

AllColumns == {COL_SMILES} \cup {PropertyColumns[k] : k \in 1..Len(PropertyColumns)}

\* where the removed identifier lies: absent, at row 31 (the published file),
\* elsewhere, or twice
LiteralLayouts == {{}, {31}, {0}, {31, 40}}

File(n, lits, nans, columns) ==
    [exists |-> TRUE, table |-> MakeTable(n, {r \in lits : r < n}, nans, columns)]

NoFile == [exists |-> FALSE, table |-> MakeTable(0, {}, "clean", AllColumns)]

LoadFiles ==
    { File(n, lits, "clean", AllColumns) : n \in 0..MaxRows, lits \in LiteralLayouts }
    \cup { File(n, {31}, nans, AllColumns) : n \in 0..MaxRows, nans \in NanLayouts }
    \cup { File(MaxRows, {31}, "clean", AllColumns \ {c}) : c \in AllColumns }
    \cup { NoFile }

\* tables of the runs that interleave loading and transforming
FullFiles ==
    { File(MaxRows - 1, {31}, "documented", AllColumns),
      File(45, {0}, "clean", AllColumns),
      File(20, {}, "stray", AllColumns),
      NoFile }

\* every column of a table has the same number of rows
NumRows(d) == Len(d.table[CHOOSE c \in DOMAIN d.table : TRUE])

----------------------------------------------------------------------------
(* transform_data: StandardScaler and PCA *)

\* A matrix is a sequence of rows, a row a sequence of numbers.  A scaled
\* entry (x - mean) / scale is kept exactly: with n samples of sum S and sum
\* of squares Q, mean = S/n and scale = sqrt(n*Q - S*S)/n (1 when the
\* variance is zero), so the entry is num / sqrt(rad) with num = n*x - S and
\* rad = n*Q - S*S (n*n when the variance is zero).

NumCols(X) == Len(X[1])

ColumnSum(X, j) ==
    LET F[i \in 0..Len(X)] == IF i = 0 THEN 0 ELSE F[i - 1] + X[i][j]
    IN  F[Len(X)]

ColumnSumSq(X, j) ==
    LET F[i \in 0..Len(X)] == IF i = 0 THEN 0 ELSE F[i - 1] + X[i][j] * X[i][j]
    IN  F[Len(X)]

\* StandardScaler().fit(X)
StandardScaler_fit(X) ==
    LET n == Len(X)
        f == NumCols(X)
    IN  [n_samples_seen_ |-> n,
         n_features_in_ |-> f,
         sum_ |-> [j \in 1..f |-> ColumnSum(X, j)],
         rad_ |-> [j \in 1..f |->
                     LET d == n * ColumnSumSq(X, j) - ColumnSum(X, j) * ColumnSum(X, j)
                     IN  IF d = 0 THEN n * n ELSE d]]

\* scaler.transform(X) raises ValueError on another number of features
StandardScaler_transform_ok(sc, X) ==
    \A i \in 1..Len(X) : Len(X[i]) = sc.n_features_in_

\* scaler.transform(X)
StandardScaler_transform(sc, X) ==
    [i \in 1..Len(X) |->
        [j \in 1..sc.n_features_in_ |->
            [num |-> sc.n_samples_seen_ * X[i][j] - sc.sum_[j], rad |-> sc.rad_[j]]]]

\* y.reshape(-1, 1)
reshape_column(y) == [i \in 1..Len(y) |-> <<y[i]>>]

\* what x_scaler is fitted on
XScalerFitInput(X_train, X_test) == X_train

\* what y_scaler is fitted on
YScalerFitInput(y_train, y_test) == reshape_column(y_train)

\* what the principal-component basis is fitted on
PcaFitInput(X_train_scaled, X_test_scaled) == X_train_scaled

\* n_components: <<>> is None, <<k>> the integer k
None == <<>>

pca_n_components_all_features(n_components, X) ==
    IF n_components = None THEN NumCols(X) ELSE n_components[1]

\* PCA.n_components_ after fit(X): min(n_samples, n_features) for None
pca_n_components_(n_components, X) ==
    IF n_components = None THEN Min(Len(X), NumCols(X)) ELSE n_components[1]

\* PCA(n_components).fit(X) raises ValueError unless
\* 0 <= n_components <= min(n_samples, n_features)
pca_fit_ok(n_components, X) ==
    n_components = None \/ n_components[1] <= Min(Len(X), NumCols(X))

Max(a, b) == IF a >= b THEN a ELSE b

\* the solver PCA(n_components) with svd_solver="auto" fits X with:
\* covariance_eigh for few features and many samples, the randomized SVD when
\* a dimension exceeds 500 and 1 <= n_components < 0.8 * min(shape), the full
\* SVD otherwise (n_components = None is min(shape), hence never randomized)
pca_svd_solver(n_components, X) ==
    LET n == Len(X)
        f == NumCols(X)
        k == pca_n_components_(n_components, X)
    IN  IF f <= 1000 /\ n >= 10 * f THEN "covariance_eigh"
        ELSE IF Max(n, f) > 500 /\ 1 <= k /\ 10 * k < 8 * Min(n, f) THEN "randomized"
        ELSE "full"

\* what the fit draws its random numbers from: PCA is built without a
\* random_state, so the randomized solver draws from numpy's global generator
\* in its current state (<<>>: the solver draws nothing)
pca_random_draw(n_components, X) ==
    IF pca_svd_solver(n_components, X) = "randomized" THEN <<np_random>> ELSE <<>>

\* pca.transform(X): the coordinates of each row on the first k components
\* of the basis fitted on `basis` with the random draw `draw`
pca_transform(basis, k, draw, X) ==
    [i \in 1..Len(X) |->
        [j \in 1..k |-> [fit |-> basis, draw |-> draw, pc |-> j, x |-> X[i]]]]

\* the printed line: sum(pca.explained_variance_ratio_) of the fitted basis
VarianceLine(basis, k, draw) ==
    [text |-> "Fraction of variance retained is: ",
     fit |-> basis, draw |-> draw, kept |-> k]

TRaised(e) ==
    [status |-> "raised", exc |-> e, X_train |-> <<>>, y_train |-> <<>>,
     X_test |-> <<>>, y_test |-> <<>>, y_scaler |-> <<>>, printed |-> <<>>,
     draws |-> 0]

TNotCalled ==
    [status |-> "not_called", exc |-> "", X_train |-> <<>>, y_train |-> <<>>,
     X_test |-> <<>>, y_test |-> <<>>, y_scaler |-> <<>>, printed |-> <<>>,
     draws |-> 0]

\* `draws` is the number of fits the call has drawn random numbers for
transform_data(X_train, y_train, X_test, y_test, n_components, use_pca) ==
    LET x_scaler == StandardScaler_fit(XScalerFitInput(X_train, X_test))
        X_train_scaled == StandardScaler_transform(x_scaler, X_train)
        X_test_scaled == StandardScaler_transform(x_scaler, X_test)
        y_scaler == StandardScaler_fit(YScalerFitInput(y_train, y_test))
        y_train_scaled == StandardScaler_transform(y_scaler, reshape_column(y_train))
        y_test_scaled == StandardScaler_transform(y_scaler, reshape_column(y_test))
        basis == PcaFitInput(X_train_scaled, X_test_scaled)
        k == pca_n_components_(n_components, basis)
        draw == pca_random_draw(n_components, basis)
    IN  IF ~StandardScaler_transform_ok(x_scaler, X_test) THEN TRaised("ValueError")
        ELSE IF ~use_pca
        THEN [status |-> "returned", exc |-> "",
              X_train |-> X_train_scaled, y_train |-> y_train_scaled,
              X_test |-> X_test_scaled, y_test |-> y_test_scaled,
              y_scaler |-> y_scaler, printed |-> <<>>, draws |-> 0]
        ELSE IF ~pca_fit_ok(n_components, basis) THEN TRaised("ValueError")
        ELSE [status |-> "returned", exc |-> "",
              X_train |-> pca_transform(basis, k, draw, X_train_scaled),
              y_train |-> y_train_scaled,
              X_test |-> pca_transform(basis, k, draw, X_test_scaled),
              y_test |-> y_test_scaled,
              y_scaler |-> y_scaler,
              printed |-> <<VarianceLine(basis, k, draw)>>,
              draws |-> Len(draw)]

----------------------------------------------------------------------------
(* Partitions and configurations the model explores *)

FeatureValues == {0, 1}

\* (n_samples, n_features) of the training partitions
TrainShapes == {<<2, 1>>, <<3, 1>>, <<2, 2>>, <<2, 3>>}

Matrices(n, f) == [1..n -> [1..f -> FeatureValues]]

\* a varying and a constant (zero-variance) target vector
TrainTargets(n) == {[i \in 1..n |-> 2 * i], [i \in 1..n |-> 4]}

ComponentChoices == {None} \cup {<<k>> : k \in 0..MaxComp}

CallersOfShape(n, f) ==
    { [X_train |-> X, y_train |-> y, n_components |-> nc, use_pca |-> pca] :
        X \in Matrices(n, f), y \in TrainTargets(n),
        nc \in ComponentChoices, pca \in BOOLEAN }

\* training partitions of 2 samples and WideFeatures features (fingerprints)
WideMatrices ==
    { [i \in 1..2 |-> [j \in 1..WideFeatures |-> (i * j + c) % 2]] : c \in {0, 1} }

WideCallers ==
    { [X_train |-> X, y_train |-> y, n_components |-> nc, use_pca |-> pca] :
        X \in WideMatrices, y \in TrainTargets(2),
        nc \in ComponentChoices, pca \in BOOLEAN }

Callers == UNION { CallersOfShape(sh[1], sh[2]) : sh \in TrainShapes } \cup WideCallers

\* the caller of a run that only loads
DefaultCaller ==
    [X_train |-> <<<<0>>, <<1>>>>, y_train |-> <<2, 4>>,
     n_components |-> None, use_pca |-> FALSE]

\* callers of the runs that interleave loading and transforming
FullCallers ==
    { [X_train |-> <<<<0, 1>>, <<1, 1>>>>, y_train |-> y,
       n_components |-> nc, use_pca |-> pca] :
        y \in TrainTargets(2), nc \in {None, <<1>>}, pca \in BOOLEAN }

\* one-row test partitions of f features, and one of f + 1 features
TestMatrices(f) ==
    { <<[j \in 1..f |-> 0]>>, <<[j \in 1..f |-> 1]>>,
      <<[j \in 1..f |-> IF j = 1 THEN 1 ELSE 0]>>, <<[j \in 1..(f + 1) |-> 0]>> }

TestTargets == {<<1>>, <<5>>}

----------------------------------------------------------------------------
(* Actions *)

\* what a call of loader l records: its outcome
Called(l, out) == [results EXCEPT ![l] = out]

\* a call of a loader reads the file, returns or raises, touches nothing else
LoadThermal ==
    /\ results' = Called("load_thermal_data", load_thermal_data(disk))
    /\ UNCHANGED <<disk, caller, tlast, stdout, np_random>>

LoadEIsoPi ==
    /\ results' = Called("load_e_iso_pi_data", load_e_iso_pi_data(disk))
    /\ UNCHANGED <<disk, caller, tlast, stdout, np_random>>

LoadEIsoN ==
    /\ results' = Called("load_e_iso_n_data", load_e_iso_n_data(disk))
    /\ UNCHANGED <<disk, caller, tlast, stdout, np_random>>

LoadZIsoPi ==
    /\ results' = Called("load_z_iso_pi_data", load_z_iso_pi_data(disk))
    /\ UNCHANGED <<disk, caller, tlast, stdout, np_random>>

LoadZIsoN ==
    /\ results' = Called("load_z_iso_n_data", load_z_iso_n_data(disk))
    /\ UNCHANGED <<disk, caller, tlast, stdout, np_random>>

NoArgs ==
    [X_train |-> <<>>, y_train |-> <<>>, X_test |-> <<>>, y_test |-> <<>>,
     n_components |-> None, use_pca |-> FALSE]

\* a call transform_data(X_train, y_train, X_test, y_test, n_components, use_pca)
\* on the caller's training partition and configuration and some test partition
TransformData ==
    \E X_test \in TestMatrices(NumCols(caller.X_train)), y_test \in TestTargets :
        LET out == transform_data(caller.X_train, caller.y_train, X_test, y_test,
                                  caller.n_components, caller.use_pca)
        IN  /\ Len(stdout) + Len(out.printed) <= MaxPrints
            /\ tlast' = [args |-> [X_train |-> caller.X_train,
                                   y_train |-> caller.y_train,
                                   X_test |-> X_test, y_test |-> y_test,
                                   n_components |-> caller.n_components,
                                   use_pca |-> caller.use_pca],
                         out |-> out]
            /\ stdout' = stdout \o out.printed
            /\ np_random' = np_random + out.draws
            /\ UNCHANGED <<disk, results, caller>>

NextLoad == LoadThermal \/ LoadEIsoPi \/ LoadEIsoN \/ LoadZIsoPi \/ LoadZIsoN

NextTransform == TransformData

Next == NextLoad \/ NextTransform

Fresh ==
    /\ results = [l \in Loaders |-> NotCalled]
    /\ tlast = [args |-> NoArgs, out |-> TNotCalled]
    /\ stdout = <<>>
    /\ np_random = 0

\* runs that only load, over every table of the family
InitLoad == disk \in LoadFiles /\ caller = DefaultCaller /\ Fresh

\* runs that only transform, over every training partition and configuration
InitTransform == disk = NoFile /\ caller \in Callers /\ Fresh

\* runs that interleave both
Init == disk \in FullFiles /\ caller \in FullCallers /\ Fresh

SpecLoad == InitLoad /\ [][NextLoad]_vars

SpecTransform == InitTransform /\ [][NextTransform]_vars

Spec == Init /\ [][Next]_vars

----------------------------------------------------------------------------
(* Properties *)

Res(l) == results[l]
HasReturned(l) == results[l].status = "returned"
WasCalled(l) == results[l].status # "not_called"

\* the file is readable and holds the identifier column and the five
\* property columns
Readable == disk.exists /\ AllColumns \subseteq DOMAIN disk.table

HasLiteral == PyContains(disk.table[COL_SMILES], E_ISO_PI_SMILES)

\* the source row (0-based) found at output position j (0-based) when the
\* rows in dropped are removed and the others keep their order
KeptRow(j, dropped) ==
    CHOOSE r \in j..(j + Cardinality(dropped)) :
        r \notin dropped /\ r - Cardinality({x \in dropped : x < r}) = j

\* out holds, for identifiers and for targets, exactly the rows of the table
\* that are not in dropped, in their original order
PairedWithRows(out, col, dropped) ==
    LET n == NumRows(disk)
        m == n - Cardinality(dropped \cap (0..(n - 1)))
    IN  /\ Len(out.smiles) = m
        /\ Len(out.vals) = m
        /\ \A j \in 0..(m - 1) :
              /\ out.smiles[j + 1] = disk.table[COL_SMILES][KeptRow(j, dropped) + 1]
              /\ out.vals[j + 1] = disk.table[col][KeptRow(j, dropped) + 1]

\* C1: whenever a loader returns, its identifier sequence and its target
\* sequence have the same length.
C1_EqualLengths ==
    \A l \in Loaders : HasReturned(l) => Len(Res(l).smiles) = Len(Res(l).vals)

C1_Witness ==
    /\ \A l \in Loaders : HasReturned(l)
    /\ NumRows(disk) = 50
    /\ Len(Res("load_z_iso_pi_data").vals) = 36

\* the row positions the claim lists as dropped by each position-based loader
ClaimedDropped(l) ==
    CASE l = "load_e_iso_n_data" -> {14, 38}
      [] l = "load_z_iso_pi_data" ->
            {12, 13, 14, 25, 27, 31, 32, 34, 35, 36, 38, 39, 40, 41}
      [] l = "load_z_iso_n_data" -> {12, 13, 14, 32, 41}

PositionLoaders == {"load_e_iso_n_data", "load_z_iso_pi_data", "load_z_iso_n_data"}

\* C2: for load_e_iso_n_data, load_z_iso_pi_data and load_z_iso_n_data on a
\* table of at least 42 rows, the rows dropped from the identifiers are the
\* rows deleted from the targets ({14,38}; {12,13,14,25,27,31,32,34,35,36,
\* 38,39,40,41}; {12,13,14,32,41}), the kept rows stay in order, and output
\* position i holds the identifier and the target of one source row.
C2_SameRowsDropped ==
    \A l \in PositionLoaders :
        (HasReturned(l) /\ NumRows(disk) >= 42)
            => PairedWithRows(Res(l), ColumnOf(l), ClaimedDropped(l))

C2_Witness ==
    /\ \A l \in PositionLoaders : HasReturned(l)
    /\ NumRows(disk) = 60
    /\ Res("load_z_iso_pi_data").smiles[29] = "mol42"
    /\ Res("load_z_iso_pi_data").vals[29] = disk.table[COL_Z_ISO_PI][43]

\* the first row (0-based) that holds the removed identifier
FirstLiteralRow ==
    CHOOSE r \in 0..(NumRows(disk) - 1) :
        /\ disk.table[COL_SMILES][r + 1] = E_ISO_PI_SMILES
        /\ \A q \in 0..(r - 1) : disk.table[COL_SMILES][q + 1] # E_ISO_PI_SMILES

\* C3: load_e_iso_pi_data removes exactly one row, the one whose identifier
\* is the literal, and the target it removes is the target of that row: on
\* every table containing the identifier, output position i holds the
\* identifier and the target of one source row.
C3_RemovesTargetOfRemovedRow ==
    HasReturned("load_e_iso_pi_data")
        => PairedWithRows(Res("load_e_iso_pi_data"), COL_E_ISO_PI, {FirstLiteralRow})

\* the number of rows each loader returns on a table of n rows
ExpectedCount(l, n) ==
    CASE l = "load_thermal_data" -> 65
      [] l = "load_e_iso_pi_data" -> n - 1
      [] l = "load_e_iso_n_data" -> n - 2
      [] l = "load_z_iso_pi_data" -> n - 14
      [] l = "load_z_iso_n_data" -> n - 5

\* the valid-molecule counts the loaders' documentation gives
DocumentedCount(l) ==
    CASE l = "load_thermal_data" -> 65
      [] l = "load_e_iso_pi_data" -> 97
      [] l = "load_e_iso_n_data" -> 96
      [] l = "load_z_iso_pi_data" -> 84
      [] l = "load_z_iso_n_data" -> 93

\* C4: on one table of N >= 65 rows that contains the removed identifier the
\* loaders return 65, N-1, N-2, N-14 and N-5 rows, and N = 98 gives the five
\* documented counts 65, 97, 96, 84, 93 at once.
C4_DocumentedCounts ==
    (Readable /\ NumRows(disk) >= 65 /\ HasLiteral) =>
        \A l \in Loaders :
            WasCalled(l) =>
                /\ HasReturned(l)
                /\ Len(Res(l).smiles) = ExpectedCount(l, NumRows(disk))
                /\ Len(Res(l).vals) = ExpectedCount(l, NumRows(disk))
                /\ NumRows(disk) = 98 => Len(Res(l).smiles) = DocumentedCount(l)

C4_Witness ==
    /\ NumRows(disk) = 98
    /\ \A l \in Loaders : HasReturned(l) /\ Len(Res(l).vals) = DocumentedCount(l)

\* C5: after a loader returns, its targets hold no NaN and no infinite
\* value, whichever rows of the table hold such values.
C5_NoNaNOrInf ==
    \A l \in Loaders :
        HasReturned(l) => \A i \in 1..Len(Res(l).vals) : IsFinite(Res(l).vals[i])

\* C6 as stated: on every readable table with the expected columns,
\* whatever its rows, every loader returns.
C6_AlwaysReturns ==
    Readable => \A l \in Loaders : WasCalled(l) => HasReturned(l)

\* the table has the rows (and the identifier) the loader's literals address
Fits(l) ==
    CASE l = "load_thermal_data" -> TRUE
      [] l = "load_e_iso_pi_data" -> HasLiteral /\ NumRows(disk) >= 32
      [] l = "load_e_iso_n_data" -> NumRows(disk) >= 39
      [] l = "load_z_iso_pi_data" -> NumRows(disk) >= 42
      [] l = "load_z_iso_n_data" -> NumRows(disk) >= 42

\* C6: a loader fails when the path is unreadable (FileNotFoundError), when
\* an expected column is absent, and also when the table does not fit its
\* literals: on a readable table with the expected columns
\* load_thermal_data always returns, load_e_iso_pi_data returns exactly when
\* the table contains the identifier and has at least 32 rows (ValueError,
\* IndexError otherwise), load_e_iso_n_data exactly when it has at least 39
\* rows, load_z_iso_pi_data and load_z_iso_n_data exactly when it has at
\* least 42 rows (IndexError otherwise).
C6_ReturnsIffTableFits ==
    \A l \in Loaders :
        WasCalled(l) =>
            /\ ~disk.exists => Res(l).exc = "FileNotFoundError"
            /\ (disk.exists /\ ~({COL_SMILES, ColumnOf(l)} \subseteq DOMAIN disk.table))
                   => Res(l).status = "raised"
            /\ Readable => (HasReturned(l) <=> Fits(l))
            /\ (Readable /\ ~Fits(l)) => Res(l).exc \in {"ValueError", "IndexError"}

C6_Witness ==
    /\ Readable
    /\ NumRows(disk) = 40
    /\ HasLiteral
    /\ HasReturned("load_e_iso_n_data")
    /\ Res("load_z_iso_n_data").exc = "IndexError"
    /\ Res("load_z_iso_pi_data").exc = "IndexError"

AllRowsLen(M, k) == \A i \in 1..Len(M) : Len(M[i]) = k

\* C9 as stated: with use_pca = True the returned X_train has exactly
\* n_components columns.
C9_ExactlyNComponents ==
    (tlast.out.status = "returned" /\ tlast.args.use_pca)
        => tlast.args.n_components = <<NumCols(tlast.out.X_train)>>

\* C9: with use_pca = True and an integer n_components the returned X_train
\* and X_test have exactly n_components columns; with n_components = None
\* (the default) they have min(n_samples, n_features) columns of the
\* training partition; with use_pca false the feature matrices keep their
\* column counts, n_components is ignored and cannot make the call fail.
C9_ColumnCounts ==
    LET a == tlast.args
        o == tlast.out
        k == IF a.n_components = None
             THEN Min(Len(a.X_train), NumCols(a.X_train))
             ELSE a.n_components[1]
    IN  /\ (o.status = "returned" /\ a.use_pca) =>
               /\ Len(o.X_train) = Len(a.X_train) /\ AllRowsLen(o.X_train, k)
               /\ Len(o.X_test) = Len(a.X_test) /\ AllRowsLen(o.X_test, k)
        /\ (o.status = "returned" /\ ~a.use_pca) =>
               /\ Len(o.X_train) = Len(a.X_train)
               /\ AllRowsLen(o.X_train, NumCols(a.X_train))
               /\ Len(o.X_test) = Len(a.X_test)
               /\ AllRowsLen(o.X_test, NumCols(a.X_test))
        /\ (o.status = "raised" /\ ~a.use_pca) =>
               NumCols(a.X_test) # NumCols(a.X_train)

C9_Witness ==
    /\ tlast.out.status = "returned"
    /\ tlast.args.use_pca
    /\ tlast.args.n_components = None
    /\ NumCols(tlast.args.X_train) = 3
    /\ NumCols(tlast.out.X_train) = 2
    /\ NumCols(tlast.out.X_test) = 2

\* C10: load_thermal_data returns the first min(N, 65) rows of an N-row
\* table, in order, for identifiers and for targets, and does so for every
\* N, also N < 65, without error.
C10_FirstRows ==
    (Readable /\ WasCalled("load_thermal_data")) =>
        LET out == Res("load_thermal_data")
            m == Min(NumRows(disk), 65)
        IN  /\ out.status = "returned"
            /\ Len(out.smiles) = m
            /\ Len(out.vals) = m
            /\ \A i \in 1..m :
                  /\ out.smiles[i] = disk.table[COL_SMILES][i]
                  /\ out.vals[i] = disk.table[COL_THERMAL][i]

C10_Witness ==
    /\ Readable
    /\ HasReturned("load_thermal_data")
    /\ NumRows(disk) = 40
    /\ Len(Res("load_thermal_data").smiles) = 40
    /\ Res("load_thermal_data").smiles[40] = "mol39"

====
